---- MODULE Spec2Model ----
(***************************************************************************)
(* Model of Aura Swarm's unified configuration (aura/config.py) and of its *)
(* launcher (aura/cli.py): the settings cache, environment substitution,   *)
(* the abilities overlay (ensure / validate / merge), the projection of    *)
(* the settings to the backend's app.yaml, the endpoint normalisation, the *)
(* generation of the backend's config directory (atomically, and as two    *)
(* concurrent invocations), the up / dev commands and the Cursor CLI       *)
(* wrapper.                                                                *)
(*                                                                         *)
(* Files hold text.  A file's content is modelled by what yaml.safe_load   *)
(* makes of it: kind "bad" is text that does not parse (safe_load raises   *)
(* yaml.YAMLError), the other kinds are the parsed document.  kind         *)
(* "absent" is a path at which no file exists.  The keys of an aura.yaml   *)
(* document are its values after _substitute_env, which is modelled on its *)
(* own, character by character.                                            *)
(***************************************************************************)
EXTENDS Integers, Sequences, FiniteSets, TLC

VARIABLES
    auraYaml,        \* config dir -> content of <dir>/aura.yaml
    envConfigDir,    \* os.environ["AURA_CONFIG_DIR"], or Unset
    aura_settings,   \* config.py's module global _aura_settings
    nextInst,        \* identity the next constructed AuraSettings object gets
    overlay,         \* overlay path -> content of the abilities file there
    example,         \* content of config/abilities.yaml.example
    last,            \* the last call: its arguments, what it saw, its outcome
    arg,             \* input of the pure function under check
    out,             \* its output
    auraExample,     \* content of config/aura.yaml.example
    backend,         \* the backend's config/models.yaml and config/models.yaml.example
    gen,             \* the files of .aura/generated_config
    envAbilities,    \* os.environ["AURA_ABILITIES_FILE"], or Unset
    runs,            \* ensure_backend_config_from_aura calls in a row, up to 2
    procs            \* the concurrent invocations: where each is, what it has read

vars == <<auraYaml, envConfigDir, aura_settings, nextInst, overlay, example,
          last, arg, out, auraExample, backend, gen, envAbilities, runs, procs>>

\* What ensure_backend_config_from_aura and the launcher add to the state
genVars == <<auraExample, backend, gen, envAbilities, runs, procs>>

----------------------------------------------------------------------------
(* Bounds of the model                                                     *)

\* AuraSettings objects constructed in one behaviour
MaxLoads == 3
\* entries in a drawn tool list
MaxTools == 2
\* tokens in a drawn endpoint string
MaxLen == 4

----------------------------------------------------------------------------
(* Python values                                                           *)

\* None, for the optional string fields
None == "<None>"
\* a str | None field in a boolean context
Truthy(s) == s # None /\ s # ""

Unset == "<unset>"

----------------------------------------------------------------------------
(* Tool entries and YAML documents                                         *)

\* t.get("id") is falsy: the key is missing, or its value is None, "" or 0
NoId == "<no id>"
Ids == {"echo", "cursor"}
Bodies == {"b1", "b2"}

\* An element of a tool list: a mapping (with its id and the rest of its
\* keys, body), or anything that is not a mapping.
DictEntry(id, body) == [dict |-> TRUE, id |-> id, body |-> body]
NonDictEntry == [dict |-> FALSE, id |-> NoId, body |-> "scalar"]
Entries == {DictEntry(i, b) : i \in Ids \cup {NoId}, b \in Bodies} \cup {NonDictEntry}

SeqsUpTo(S, n) == UNION {[1..k -> S] : k \in 0..n}
ToolLists == SeqsUpTo(Entries, MaxTools)

\* The value under a key of a mapping: missing or None ("none"), a list
\* ("list"), or something else: an empty string ("falsy") or a non-empty
\* string ("truthy").
NoVal == [t |-> "none", items |-> <<>>]
ListVal(l) == [t |-> "list", items |-> l]
FalsyVal == [t |-> "falsy", items |-> <<>>]
TruthyVal == [t |-> "truthy", items |-> <<>>]

\* Content of a tool-list file (overlay, example).
Absent == [kind |-> "absent", items |-> <<>>, local_tools |-> NoVal, abilities |-> NoVal]
BadYaml == [kind |-> "bad", items |-> <<>>, local_tools |-> NoVal, abilities |-> NoVal]
NullDoc == [kind |-> "null", items |-> <<>>, local_tools |-> NoVal, abilities |-> NoVal]
ScalarDoc == [kind |-> "scalar", items |-> <<>>, local_tools |-> NoVal, abilities |-> NoVal]
ListDoc(l) == [kind |-> "list", items |-> l, local_tools |-> NoVal, abilities |-> NoVal]
MapDoc(lt, ab) == [kind |-> "map", items |-> <<>>, local_tools |-> lt, abilities |-> ab]

\* _DEFAULT_ABILITIES_CONF: a mapping with eight tools under local_tools
DefaultIds == <<"echo", "date", "cursor", "copilot_cli", "claude",
                "cursor_loop", "copilot_cli_loop", "claude_loop">>
DEFAULT_ABILITIES_CONF ==
    MapDoc(ListVal([i \in 1..Len(DefaultIds) |-> DictEntry(DefaultIds[i], "builtin")]), NoVal)

----------------------------------------------------------------------------
(* Endpoint strings                                                        *)

\* An endpoint string is a sequence of tokens, each standing for the text
\* shown: startswith, strip and rstrip act on them as on the characters.
SP == " "
SL == "/"
HTTP == "http:"
HTTPS == "https:"
HOST == "x"
Tokens == {SP, SL, HTTP, HTTPS, HOST}
Strings == SeqsUpTo(Tokens, MaxLen)

\* an oss_endpoint: None, or a string
NoEp == [some |-> FALSE, s |-> <<>>]
Ep(s) == [some |-> TRUE, s |-> s]

\* s.startswith(p)
StartsWith(s, p) == Len(s) >= Len(p) /\ SubSeq(s, 1, Len(p)) = p

RECURSIVE LStrip(_, _)
LStrip(s, c) == IF s # <<>> /\ Head(s) = c THEN LStrip(Tail(s), c) ELSE s

RECURSIVE RStrip(_, _)
RStrip(s, c) ==
    IF s # <<>> /\ s[Len(s)] = c THEN RStrip(SubSeq(s, 1, Len(s) - 1), c) ELSE s

\* s.strip(): leading and trailing whitespace removed
Strip(s) == RStrip(LStrip(s, SP), SP)

HttpScheme == <<HTTP, SL, SL>>
HttpsScheme == <<HTTPS, SL, SL>>

----------------------------------------------------------------------------
(* AuraSettings                                                            *)

RunMode == {"node", "docker", "local"}

DefaultPort == 8000

\* AuraSettings(): every field at its default.  inst is the object's identity.
DefaultSettings(inst) ==
    [inst |-> inst, run_mode |-> "node", port |-> DefaultPort, config_dir |-> "config",
     abilities_file |-> None, oss_endpoint |-> NoEp, oss_bucket |-> None,
     oss_access_key_id |-> None, oss_access_key_secret |-> None,
     dashscope_api_key |-> None, qwen_token |-> None]

\* No AuraSettings object (the cache's None, the return value of a call that raised)
NoSettings == [DefaultSettings(0) EXCEPT !.run_mode = None]

\* AuraSettings.get_oss_endpoint_normalized; NoEp is the None it returns
\* Variant that forgets the http:// test of line 73
NormalizeIgnoresHttp(ep) ==
    IF ~ep.some \/ Strip(ep.s) = <<>>
    THEN NoEp
    ELSE LET e == RStrip(Strip(ep.s), SL)
         IN  IF ~StartsWith(e, HttpsScheme) THEN Ep(HttpsScheme \o e) ELSE Ep(e)

get_oss_endpoint_normalized(ep) ==
    IF ~ep.some \/ Strip(ep.s) = <<>>
    THEN NoEp
    ELSE LET e == RStrip(Strip(ep.s), SL)
         IN  IF ~StartsWith(e, HttpScheme) /\ ~StartsWith(e, HttpsScheme)
             THEN Ep(HttpsScheme \o e)
             ELSE Ep(e)

\* A key of the dict that is not there
NoKey == "<no key>"
NoKeyEp == [some |-> FALSE, s |-> <<NoKey>>]

\* model_dump(exclude_none=True): a field that is None has no key
Dump(v) == IF v = None THEN NoKey ELSE v
DumpEp(ep) == IF ep.some THEN ep ELSE NoKeyEp

\* Variant that forgets the pop of line 89
ProjectKeepsAlias(st) ==
    [run_mode |-> st.run_mode, port |-> st.port, config_dir |-> "config",
     abilities_file |-> Dump(st.abilities_file),
     oss_endpoint |-> DumpEp(st.oss_endpoint),
     oss_bucket |-> Dump(st.oss_bucket),
     oss_access_key_id |-> Dump(st.oss_access_key_id),
     oss_access_key_secret |-> Dump(st.oss_access_key_secret),
     dashscope_api_key |-> IF ~Truthy(st.dashscope_api_key) /\ Truthy(st.qwen_token)
                           THEN st.qwen_token
                           ELSE Dump(st.dashscope_api_key),
     qwen_token |-> Dump(st.qwen_token)]

\* AuraSettings.to_backend_app_yaml_dict
to_backend_app_yaml_dict(st) ==
    LET d == [run_mode |-> st.run_mode, port |-> st.port, config_dir |-> "config",
              abilities_file |-> Dump(st.abilities_file),
              oss_endpoint |-> DumpEp(st.oss_endpoint),
              oss_bucket |-> Dump(st.oss_bucket),
              oss_access_key_id |-> Dump(st.oss_access_key_id),
              oss_access_key_secret |-> Dump(st.oss_access_key_secret),
              dashscope_api_key |-> Dump(st.dashscope_api_key),
              qwen_token |-> Dump(st.qwen_token)]
        norm == get_oss_endpoint_normalized(st.oss_endpoint)
        d1 == IF st.oss_endpoint.some /\ st.oss_endpoint.s # <<>> /\ Truthy(st.oss_bucket)
                 /\ norm.some
              THEN [d EXCEPT !.oss_endpoint = norm]
              ELSE d
        d2 == IF (d1.dashscope_api_key = NoKey \/ d1.dashscope_api_key = "")
                 /\ Truthy(st.qwen_token)
              THEN [d1 EXCEPT !.dashscope_api_key = st.qwen_token]
              ELSE d1
    IN  [d2 EXCEPT !.qwen_token = NoKey]

----------------------------------------------------------------------------
(* The unified config file and the settings cache                          *)

\* Content of aura.yaml: absent, text that does not parse ("bad"), an empty
\* document ("null"), or a mapping with the keys it gives (None: key not given).
AuraAbsent ==
    [kind |-> "absent", run_mode |-> None, abilities_file |-> None, config_dir |-> None]
AuraBad ==
    [kind |-> "bad", run_mode |-> None, abilities_file |-> None, config_dir |-> None]
AuraNull ==
    [kind |-> "null", run_mode |-> None, abilities_file |-> None, config_dir |-> None]
AuraMap(rm, af) ==
    [kind |-> "map", run_mode |-> rm, abilities_file |-> af, config_dir |-> None]
\* a mapping that gives config_dir, and nothing else
AuraMapDir(cd) ==
    [kind |-> "map", run_mode |-> None, abilities_file |-> None, config_dir |-> cd]

DefaultConfigDir == "config"
AltConfigDir == "alt"
ConfigDirs == {DefaultConfigDir, AltConfigDir}

\* _aura_config_path: the directory AURA_CONFIG_DIR names, else <root>/config
aura_config_path(env) == IF env = Unset THEN DefaultConfigDir ELSE env

\* AuraSettings.model_validate(data) for a mapping: the outcome
\* Variant whose run_mode is a plain str, not the Literal of line 14
ModelValidateAnyMode(doc, inst) ==
    [raised |-> "none",
     ret |-> [DefaultSettings(inst) EXCEPT
                !.run_mode = IF doc.run_mode = None THEN "node" ELSE doc.run_mode,
                !.abilities_file = doc.abilities_file,
                !.config_dir = IF doc.config_dir = None THEN "config" ELSE doc.config_dir]]

model_validate(doc, inst) ==
    IF doc.run_mode # None /\ doc.run_mode \notin RunMode
    THEN [raised |-> "ValidationError", ret |-> NoSettings]
    ELSE [raised |-> "none",
          ret |-> [DefaultSettings(inst) EXCEPT
                     !.run_mode = IF doc.run_mode = None THEN "node" ELSE doc.run_mode,
                     !.abilities_file = doc.abilities_file,
                     !.config_dir = IF doc.config_dir = None THEN "config"
                                    ELSE doc.config_dir]]

\* get_aura_settings, from the cache, the next identity and the content of the
\* file at the resolved path: what it raises, what it returns, the cache and
\* the next identity after it.
\* Variant that forgets the test of line 275 and loads on every call
GetAlwaysReload(cache, inst, doc) ==
    LET r == IF doc.kind = "bad" THEN [raised |-> "YAMLError", ret |-> NoSettings]
             ELSE IF doc.kind = "map" THEN model_validate(doc, inst)
             ELSE [raised |-> "none", ret |-> DefaultSettings(inst)]
    IN  [raised |-> r.raised, ret |-> r.ret,
         cache |-> IF r.raised = "none" THEN r.ret ELSE cache,
         inst |-> IF r.raised = "none" THEN inst + 1 ELSE inst, read |-> TRUE]

\* Variant without the else branch of lines 284-285: a missing file is read
\* all the same, and the read fails
GetReadsMissingFile(cache, inst, doc) ==
    IF cache # NoSettings
    THEN [raised |-> "none", ret |-> cache, cache |-> cache, inst |-> inst, read |-> FALSE]
    ELSE IF doc.kind = "absent"
    THEN [raised |-> "FileNotFoundError", ret |-> NoSettings, cache |-> cache,
          inst |-> inst, read |-> TRUE]
    ELSE GetAlwaysReload(cache, inst, doc)

get_aura_settings(cache, inst, doc) ==
    IF cache # NoSettings
    THEN [raised |-> "none", ret |-> cache, cache |-> cache, inst |-> inst, read |-> FALSE]
    ELSE IF doc.kind = "absent"
    THEN [raised |-> "none", ret |-> DefaultSettings(inst),
          cache |-> DefaultSettings(inst), inst |-> inst + 1, read |-> FALSE]
    ELSE IF doc.kind = "bad"
    THEN [raised |-> "YAMLError", ret |-> NoSettings, cache |-> cache, inst |-> inst,
          read |-> TRUE]
    ELSE LET r == IF doc.kind = "map" THEN model_validate(doc, inst)
                  ELSE [raised |-> "none", ret |-> DefaultSettings(inst)]
         IN  [raised |-> r.raised, ret |-> r.ret,
              cache |-> IF r.raised = "none" THEN r.ret ELSE cache,
              inst |-> IF r.raised = "none" THEN inst + 1 ELSE inst, read |-> TRUE]

----------------------------------------------------------------------------
(* The abilities overlay                                                   *)

DefaultAbilitiesPath == "config/abilities.yaml"
CustomAbilitiesPath == "custom/abilities.yaml"
OverlayPaths == {DefaultAbilitiesPath, CustomAbilitiesPath}

\* settings.abilities_file or "config/abilities.yaml", resolved
abilities_path(st) ==
    IF Truthy(st.abilities_file) THEN st.abilities_file ELSE DefaultAbilitiesPath

\* _validate_abilities_config on the content at the path: what it raises and
\* what it returns
validate_abilities_config(c) ==
    IF c.kind = "absent" THEN [raised |-> "none", ok |-> FALSE]
    ELSE IF c.kind = "bad" THEN [raised |-> "YAMLError", ok |-> FALSE]
    ELSE IF c.kind = "null" THEN [raised |-> "none", ok |-> FALSE]
    ELSE IF c.kind = "list" THEN [raised |-> "none", ok |-> TRUE]
    ELSE IF c.kind = "map" /\ c.local_tools.t = "list" THEN [raised |-> "none", ok |-> TRUE]
    ELSE IF c.kind = "map" /\ c.abilities.t = "list" THEN [raised |-> "none", ok |-> TRUE]
    ELSE [raised |-> "none", ok |-> FALSE]

\* Lines 164-176 of ensure_abilities_config, once the path is resolved: what
\* it raises and the content of the file at the path after it.
\* Variant that forgets 'not ab_path.exists()' in line 170
EnsureCopiesExampleOverInvalid(c, ex) ==
    LET v1 == validate_abilities_config(c)
        written == IF ex.kind # "absent" THEN ex ELSE DEFAULT_ABILITIES_CONF
        v2 == validate_abilities_config(written)
    IN  IF c.kind # "absent" /\ v1.raised # "none"
        THEN [raised |-> v1.raised, file |-> c]
        ELSE IF c.kind # "absent" /\ v1.ok
        THEN [raised |-> "none", file |-> c]
        ELSE IF v2.raised # "none"
        THEN [raised |-> v2.raised, file |-> written]
        ELSE IF ~v2.ok
        THEN [raised |-> "ValueError", file |-> written]
        ELSE [raised |-> "none", file |-> written]

\* Variant that forgets the early return of lines 164-166
EnsureAlwaysRewrites(c, ex) ==
    LET written == IF c.kind = "absent" /\ ex.kind # "absent"
                   THEN ex
                   ELSE DEFAULT_ABILITIES_CONF
        v2 == validate_abilities_config(written)
    IN  IF v2.raised # "none"
        THEN [raised |-> v2.raised, file |-> written]
        ELSE IF ~v2.ok
        THEN [raised |-> "ValueError", file |-> written]
        ELSE [raised |-> "none", file |-> written]

\* Variant that forgets the re-validation of lines 174-175
EnsureNoRevalidate(c, ex) ==
    LET v1 == validate_abilities_config(c)
        written == IF c.kind = "absent" /\ ex.kind # "absent"
                   THEN ex
                   ELSE DEFAULT_ABILITIES_CONF
    IN  IF c.kind # "absent" /\ v1.raised # "none"
        THEN [raised |-> v1.raised, file |-> c]
        ELSE IF c.kind # "absent" /\ v1.ok
        THEN [raised |-> "none", file |-> c]
        ELSE [raised |-> "none", file |-> written]

EnsureAtPath(c, ex) ==
    LET v1 == validate_abilities_config(c)
        written == IF c.kind = "absent" /\ ex.kind # "absent"
                   THEN ex
                   ELSE DEFAULT_ABILITIES_CONF
        v2 == validate_abilities_config(written)
    IN  IF c.kind # "absent" /\ v1.raised # "none"
        THEN [raised |-> v1.raised, file |-> c]
        ELSE IF c.kind # "absent" /\ v1.ok
        THEN [raised |-> "none", file |-> c]
        ELSE IF v2.raised # "none"
        THEN [raised |-> v2.raised, file |-> written]
        ELSE IF ~v2.ok
        THEN [raised |-> "ValueError", file |-> written]
        ELSE [raised |-> "none", file |-> written]

\* ensure_abilities_config: what it raises, the path it returns, and the
\* cache, the next identity and the overlay files after it.
ensure_abilities_config(cache, inst, doc, ov, ex) ==
    LET g == get_aura_settings(cache, inst, doc)
        path == abilities_path(g.ret)
        e == EnsureAtPath(ov[path], ex)
    IN  IF g.raised # "none"
        THEN [raised |-> g.raised, ret |-> "", path |-> "", cache |-> g.cache,
              inst |-> g.inst, overlay |-> ov]
        ELSE [raised |-> e.raised, ret |-> IF e.raised = "none" THEN path ELSE "",
              path |-> path, cache |-> g.cache, inst |-> g.inst,
              overlay |-> [ov EXCEPT ![path] = e.file]]

----------------------------------------------------------------------------
(* The merge of the overlay into the generated tool list                   *)

\* Variant that takes every mapping, with an id or without
IsMapping(t) == t.dict

\* isinstance(t, dict) and t.get("id").  (The elif branch of line 194 never
\* runs: nothing yaml.safe_load returns has an attribute id.)
HasId(t) == t.dict /\ t.id # NoId

\* by_id[t["id"]] = t on an insertion-ordered dict, kept as the sequence of
\* its values: an id already there keeps its place and takes the new value,
\* a new id goes to the end.
\* Variant in which the first entry of an id wins (dict.setdefault)
PutKeepsFirst(by_id, t) ==
    IF \E i \in 1..Len(by_id) : by_id[i].id = t.id THEN by_id ELSE Append(by_id, t)

\* Variant that keeps a list, not a dict: every entry is appended
PutAppends(by_id, t) == Append(by_id, t)

Put(by_id, t) ==
    IF \E i \in 1..Len(by_id) : by_id[i].id = t.id
    THEN [i \in 1..Len(by_id) |-> IF by_id[i].id = t.id THEN t ELSE by_id[i]]
    ELSE Append(by_id, t)

\* The loops of lines 191-195 and 209-211: every entry with an id, in order
RECURSIVE PutAll(_, _)
PutAll(by_id, l) ==
    IF l = <<>> THEN by_id
    ELSE PutAll(IF HasId(Head(l)) THEN Put(by_id, Head(l)) ELSE by_id, Tail(l))

\* data.get("local_tools") or []
BaseTools(models) ==
    IF models.kind = "map" /\ models.local_tools.t = "list"
    THEN models.local_tools.items
    ELSE <<>>

\* Lines 202-208: the overlay's list; a value that is no list gives nothing
AbList(ab) ==
    IF ab.kind = "list" THEN ab.items
    ELSE IF ab.kind # "map" THEN <<>>
    ELSE IF ab.local_tools.t = "truthy" THEN <<>>
    ELSE IF ab.local_tools.t = "list" /\ ab.local_tools.items # <<>>
    THEN ab.local_tools.items
    ELSE IF ab.abilities.t = "list" THEN ab.abilities.items
    ELSE <<>>

\* _merge_abilities_into_generated, from the content of generated/models.yaml
\* and of the overlay file: what it raises and models.yaml after it.  (A
\* document that is falsy, null or an empty list, is taken as {}; a scalar
\* document is a non-empty string, so data.get raises.)
\* Variant that appends the overlay's entries instead of putting them by id
MergeAppendsOverlay(models, ab) ==
    IF models.kind = "absent" THEN [raised |-> "none", models |-> models]
    ELSE IF models.kind = "bad" THEN [raised |-> "YAMLError", models |-> models]
    ELSE IF models.kind = "scalar" \/ (models.kind = "list" /\ models.items # <<>>)
    THEN [raised |-> "AttributeError", models |-> models]
    ELSE IF ab.kind = "bad" THEN [raised |-> "YAMLError", models |-> models]
    ELSE LET merged == PutAll(<<>>, BaseTools(models)) \o SelectSeq(AbList(ab), HasId)
         IN  [raised |-> "none",
              models |-> MapDoc(ListVal(merged),
                                IF models.kind = "map" THEN models.abilities ELSE NoVal)]

merge_abilities_into_generated(models, ab) ==
    IF models.kind = "absent" THEN [raised |-> "none", models |-> models]
    ELSE IF models.kind = "bad" THEN [raised |-> "YAMLError", models |-> models]
    ELSE IF models.kind = "scalar" \/ (models.kind = "list" /\ models.items # <<>>)
    THEN [raised |-> "AttributeError", models |-> models]
    ELSE IF ab.kind = "bad" THEN [raised |-> "YAMLError", models |-> models]
    ELSE LET merged == PutAll(PutAll(<<>>, BaseTools(models)), AbList(ab))
         IN  [raised |-> "none",
              models |-> MapDoc(ListVal(merged),
                                IF models.kind = "map" THEN models.abilities ELSE NoVal)]

----------------------------------------------------------------------------
(* The generated backend config (ensure_backend_config_from_aura)          *)

\* <aura root>/.aura/generated_config, the directory the call returns
GeneratedDir == ".aura/generated_config"

\* generated/app.yaml: absent, or the dumped dict
NoAppYaml == [some |-> FALSE, d |-> to_backend_app_yaml_dict(NoSettings)]
AppYaml(d) == [some |-> TRUE, d |-> d]

\* The text written when the backend has neither models.yaml nor its
\* example: an empty tool list (and empty provider maps)
MinimalModels == MapDoc(ListVal(<<>>), NoVal)

\* The generated directory: app.yaml; models.yaml, as parsed, and whose
\* text it is ("none": no file; "copy": the backend's, byte for byte;
\* "minimal": the text of lines 241-242; "dump": yaml.dump's; "left": text
\* left there by something else); models.yaml.example.
GenDir(app, models, text, ex) ==
    [app |-> app, models |-> models, text |-> text, example |-> ex]
EmptyGen == GenDir(NoAppYaml, Absent, "none", Absent)

\* The backend's config directory: models.yaml and models.yaml.example
Backend(models, ex) == [models |-> models, example |-> ex]
NoBackend == Backend(Absent, Absent)

NoProcs == <<>>

\* Nothing generated, no backend source, nothing running
GenIdle ==
    /\ auraExample = AuraAbsent
    /\ backend = NoBackend
    /\ gen = EmptyGen
    /\ envAbilities = Unset
    /\ runs = 0
    /\ procs = NoProcs

\* Lines 229-230: the dict written to app.yaml
\* Variant without the assignment of line 230
AppDataKeepsConfigDir(st) == to_backend_app_yaml_dict(st)

app_data(st) == [to_backend_app_yaml_dict(st) EXCEPT !.config_dir = GeneratedDir]

\* Lines 234-244: the base tool list, copied under the name the backend has
\* it under (models.yaml, else models.yaml.example), else the minimal text
\* written to models.yaml
copy_base(b, g) ==
    IF b.models.kind # "absent" THEN [g EXCEPT !.models = b.models, !.text = "copy"]
    ELSE IF b.example.kind # "absent" THEN [g EXCEPT !.example = b.example]
    ELSE [g EXCEPT !.models = MinimalModels, !.text = "minimal"]

\* Line 245 on the generated directory: models.yaml rewritten with the merge,
\* unless there is none or the merge raised
merge_into(g, ab) ==
    LET m == merge_abilities_into_generated(g.models, ab)
    IN  [raised |-> m.raised,
         gen |-> IF m.raised = "none" /\ g.models.kind # "absent"
                 THEN [g EXCEPT !.models = m.models, !.text = "dump"]
                 ELSE g]

\* Lines 226-251 of ensure_backend_config_from_aura, from the outcome e of
\* the ensure_abilities_config of line 225: what the call raises, the
\* directory it returns, the overlay path, and the cache, the next identity,
\* the overlay files, the generated directory and AURA_ABILITIES_FILE after it.
\* Variant that writes app.yaml before it looks at the outcome of line 225
GenerateWritesAppFirst(e, b, g, envAb) ==
    LET st == e.cache
        g1 == [g EXCEPT !.app = AppYaml(app_data(st))]
        m == merge_into(copy_base(b, g1), e.overlay[e.path])
    IN  IF e.raised # "none"
        THEN [raised |-> e.raised, ret |-> "", path |-> e.path, cache |-> e.cache,
              inst |-> e.inst, overlay |-> e.overlay,
              gen |-> IF st # NoSettings THEN g1 ELSE g, envAbilities |-> envAb]
        ELSE [raised |-> m.raised, ret |-> IF m.raised = "none" THEN GeneratedDir ELSE "",
              path |-> e.path, cache |-> e.cache, inst |-> e.inst, overlay |-> e.overlay,
              gen |-> m.gen,
              envAbilities |-> IF m.raised = "none" THEN e.path ELSE envAb]

generate_after_ensure(e, b, g, envAb) ==
    LET st == e.cache
        g1 == [g EXCEPT !.app = AppYaml(app_data(st))]
        m == merge_into(copy_base(b, g1), e.overlay[e.path])
    IN  IF e.raised # "none"
        THEN [raised |-> e.raised, ret |-> "", path |-> e.path, cache |-> e.cache,
              inst |-> e.inst, overlay |-> e.overlay, gen |-> g, envAbilities |-> envAb]
        ELSE [raised |-> m.raised, ret |-> IF m.raised = "none" THEN GeneratedDir ELSE "",
              path |-> e.path, cache |-> e.cache, inst |-> e.inst, overlay |-> e.overlay,
              gen |-> m.gen,
              envAbilities |-> IF m.raised = "none" THEN e.path ELSE envAb]

\* ensure_backend_config_from_aura
ensure_backend_config_from_aura(cache, inst, doc, ov, ex, b, g, envAb) ==
    generate_after_ensure(ensure_abilities_config(cache, inst, doc, ov, ex), b, g, envAb)

----------------------------------------------------------------------------
(* What the environment may put into the files                             *)

EchoTool == DictEntry("echo", "b1")
CursorTool == DictEntry("cursor", "b2")

OverlayInputs ==
    {BadYaml, NullDoc, ScalarDoc, MapDoc(NoVal, NoVal), MapDoc(TruthyVal, NoVal),
     ListDoc(<<CursorTool>>), MapDoc(ListVal(<<CursorTool>>), NoVal),
     MapDoc(NoVal, ListVal(<<CursorTool>>))}

ExampleInputs ==
    {BadYaml, NullDoc, MapDoc(ListVal(<<EchoTool, CursorTool>>), NoVal)}

AuraInputs ==
    {AuraBad, AuraNull, AuraMap("docker", None), AuraMap("bogus", None),
     AuraMap(None, CustomAbilitiesPath), AuraMap("local", "")}

----------------------------------------------------------------------------
(* The state machine                                                       *)

\* The record of a call.  ret, retPath: the AuraSettings or the path it
\* returned; path: the overlay path it resolved ("" when it did not get that
\* far); read: whether it read aura.yaml; doc: the content of aura.yaml at
\* the resolved path when the call began; cache: the cache then; file, ex:
\* the overlay file at the resolved path and the example then.
Call(op, raised, ret, retPath, path, read, doc, cache, file, ex) ==
    [op |-> op, raised |-> raised, ret |-> ret, retPath |-> retPath, path |-> path,
     read |-> read, doc |-> doc, cache |-> cache, file |-> file, ex |-> ex]

NoCall(op) ==
    Call(op, "none", NoSettings, "", "", FALSE, AuraAbsent, NoSettings, Absent, Absent)

CurrentDoc == auraYaml[aura_config_path(envConfigDir)]

\* A call can construct an AuraSettings object only while identities are left
CanLoad == aura_settings # NoSettings \/ nextInst <= MaxLoads

GetAuraSettings ==
    /\ CanLoad
    /\ LET g == get_aura_settings(aura_settings, nextInst, CurrentDoc)
       IN  /\ aura_settings' = g.cache
           /\ nextInst' = g.inst
           /\ last' = Call("get", g.raised, g.ret, "", "", g.read, CurrentDoc,
                           aura_settings, Absent, Absent)
    /\ UNCHANGED <<auraYaml, envConfigDir, overlay, example, arg, out, genVars>>

ResetAuraSettingsCache ==
    /\ aura_settings' = NoSettings
    /\ last' = [NoCall("reset") EXCEPT !.cache = aura_settings]
    /\ UNCHANGED <<auraYaml, envConfigDir, nextInst, overlay, example, arg, out, genVars>>

EnsureAbilitiesConfig ==
    /\ CanLoad
    /\ LET r == ensure_abilities_config(aura_settings, nextInst, CurrentDoc, overlay, example)
       IN  /\ aura_settings' = r.cache
           /\ nextInst' = r.inst
           /\ overlay' = r.overlay
           /\ last' = Call("ensure", r.raised, NoSettings, r.ret, r.path, FALSE,
                           CurrentDoc, aura_settings,
                           IF r.path = "" THEN Absent ELSE overlay[r.path], example)
    /\ UNCHANGED <<auraYaml, envConfigDir, example, arg, out, genVars>>

\* The user writes or removes an aura.yaml
WriteAuraYaml ==
    /\ \E d \in ConfigDirs, c \in AuraInputs \cup {AuraAbsent} :
          /\ auraYaml[d] # c
          /\ auraYaml' = [auraYaml EXCEPT ![d] = c]
    /\ last' = NoCall("env")
    /\ UNCHANGED <<envConfigDir, aura_settings, nextInst, overlay, example, arg, out, genVars>>

\* AURA_CONFIG_DIR is set or unset
SetConfigDirEnv ==
    /\ \E e \in {Unset, AltConfigDir} :
          /\ e # envConfigDir
          /\ envConfigDir' = e
    /\ last' = NoCall("env")
    /\ UNCHANGED <<auraYaml, aura_settings, nextInst, overlay, example, arg, out, genVars>>

\* The user edits or removes an abilities file
WriteOverlay ==
    /\ \E p \in OverlayPaths, c \in OverlayInputs \cup {Absent} :
          /\ overlay[p] # c
          /\ overlay' = [overlay EXCEPT ![p] = c]
    /\ last' = NoCall("env")
    /\ UNCHANGED <<auraYaml, envConfigDir, aura_settings, nextInst, example, arg, out, genVars>>

\* The bundled example is installed, changed or removed
WriteExample ==
    /\ \E c \in ExampleInputs \cup {Absent} :
          /\ example # c
          /\ example' = c
    /\ last' = NoCall("env")
    /\ UNCHANGED <<auraYaml, envConfigDir, aura_settings, nextInst, overlay, arg, out, genVars>>

NoArg == <<>>

\* A fresh process: nothing cached, AURA_CONFIG_DIR not set, no abilities
\* file yet; aura.yaml is whatever the user left.
InitWith(docs) ==
    /\ auraYaml \in [ConfigDirs -> docs]
    /\ envConfigDir = Unset
    /\ aura_settings = NoSettings
    /\ nextInst = 1
    /\ overlay = [p \in OverlayPaths |-> Absent]
    /\ example = Absent
    /\ last = NoCall("init")
    /\ arg = NoArg
    /\ out = NoArg
    /\ GenIdle

\* The overlay: ensure_abilities_config under edits of the abilities files
\* and of the example, with aura.yaml as the user left it.
Init ==
    /\ InitWith({AuraAbsent, AuraBad, AuraMap("bogus", None),
                 AuraMap("local", CustomAbilitiesPath)})
    /\ auraYaml[AltConfigDir] = AuraAbsent

Next ==
    \/ EnsureAbilitiesConfig
    \/ ResetAuraSettingsCache
    \/ WriteOverlay
    \/ WriteExample

Spec == Init /\ [][Next]_vars

\* The settings cache: get_aura_settings, reset_aura_settings_cache and
\* ensure_abilities_config (which gets the settings) under edits of
\* aura.yaml and changes of AURA_CONFIG_DIR.
InitCache == InitWith({AuraAbsent})

NextCache ==
    \/ GetAuraSettings
    \/ EnsureAbilitiesConfig
    \/ ResetAuraSettingsCache
    \/ WriteAuraYaml
    \/ SetConfigDirEnv

SpecCache == InitCache /\ [][NextCache]_vars

----------------------------------------------------------------------------
(* Claims about the overlay (checked under Spec)                           *)

\* The content parses and has the shape of an abilities config: a top-level
\* list, or a mapping with a list under local_tools or under abilities.
StructurallyValid(c) ==
    \/ c.kind = "list"
    \/ c.kind = "map" /\ (c.local_tools.t = "list" \/ c.abilities.t = "list")

\* The content parses, but to something else.
StructurallyInvalid(c) == c.kind \in {"null", "scalar", "map"} /\ ~StructurallyValid(c)

\* The last call was ensure_abilities_config and it got as far as the overlay
\* file (the settings loaded, so there is a resolved overlay path).
Ensured == last.op = "ensure" /\ last.path # ""

HasTool(l, id) == \E i \in 1..Len(l) : l[i].dict /\ l[i].id = id

\* C2: when the overlay file exists and does not parse, ensure_abilities_config
\* completes without error and the file then parses to a mapping with a
\* non-empty local_tools list that has the id "echo".
C2_InvalidYamlHealed ==
    (Ensured /\ last.file.kind = "bad") =>
        /\ last.raised = "none"
        /\ overlay[last.path].kind = "map"
        /\ overlay[last.path].local_tools.t = "list"
        /\ HasTool(overlay[last.path].local_tools.items, "echo")

\* C3: when the overlay file exists and parses but is structurally invalid,
\* ensure_abilities_config overwrites it with _DEFAULT_ABILITIES_CONF, whether
\* or not the example exists, and returns its path.
C3_InvalidOverwritten ==
    (Ensured /\ StructurallyInvalid(last.file)) =>
        /\ overlay[last.path] = DEFAULT_ABILITIES_CONF
        /\ last.raised = "none"
        /\ last.retPath = last.path

C3_Witness ==
    /\ Ensured
    /\ last.file = MapDoc(TruthyVal, NoVal)
    /\ last.ex.kind = "map"
    /\ overlay[last.path] = DEFAULT_ABILITIES_CONF

\* C4: when the overlay file exists and is structurally valid, a call of
\* ensure_abilities_config returns its path and changes no abilities file,
\* however often it is called.
C4_ValidUnchanged ==
    [][(last'.op = "ensure" /\ last'.path # "" /\ StructurallyValid(overlay[last'.path])) =>
          /\ overlay' = overlay
          /\ last'.raised = "none"
          /\ last'.retPath = last'.path]_vars

C4_Witness ==
    /\ Ensured
    /\ last.file = MapDoc(NoVal, ListVal(<<CursorTool>>))
    /\ overlay[last.path] = last.file
    /\ last.retPath = CustomAbilitiesPath
    /\ last.cache # NoSettings

\* C5: when the overlay file is absent, ensure_abilities_config writes the
\* example's content if the example exists and the default content otherwise,
\* and then returns with a structurally valid overlay file or raises; no call
\* returns normally leaving the overlay absent or structurally invalid.
C5_AbsentCreated ==
    /\ (Ensured /\ last.file.kind = "absent") =>
          overlay[last.path] =
              IF last.ex.kind # "absent" THEN last.ex ELSE DEFAULT_ABILITIES_CONF
    /\ (last.op = "ensure" /\ last.raised = "none") =>
          /\ last.path # ""
          /\ last.retPath = last.path
          /\ StructurallyValid(overlay[last.path])

C5_Witness ==
    /\ Ensured
    /\ last.file.kind = "absent"
    /\ last.ex = MapDoc(ListVal(<<EchoTool, CursorTool>>), NoVal)
    /\ overlay[last.path] = last.ex
    /\ last.raised = "none"

----------------------------------------------------------------------------
(* Claims about the settings cache (checked under SpecCache)               *)

\* The settings say what the document says: the defaults when there is no
\* file or it is empty, else the keys it gives over the defaults.
Reflects(st, doc) ==
    IF doc.kind \in {"absent", "null"}
    THEN st = DefaultSettings(st.inst)
    ELSE /\ doc.kind = "map"
         /\ st = [DefaultSettings(st.inst) EXCEPT
                    !.run_mode = IF doc.run_mode = None THEN "node" ELSE doc.run_mode,
                    !.abilities_file = doc.abilities_file,
                    !.config_dir = IF doc.config_dir = None THEN "config"
                                   ELSE doc.config_dir]

\* C9: the cache is unloaded or loaded.  Once loaded, every get_aura_settings
\* returns the cached instance without reading the file, whatever was written
\* to aura.yaml or done to AURA_CONFIG_DIR in between, until
\* reset_aura_settings_cache; only reset_aura_settings_cache unloads the
\* cache; and a successful get_aura_settings on an unloaded cache returns and
\* caches settings that reflect the file as it is at that moment.
C9_CacheStates ==
    /\ []((last.op = "get" /\ last.cache # NoSettings) =>
             /\ last.raised = "none"
             /\ last.ret = last.cache
             /\ aura_settings = last.cache
             /\ ~last.read)
    /\ []((last.op = "get" /\ last.cache = NoSettings /\ last.raised = "none") =>
             /\ Reflects(last.ret, last.doc)
             /\ last.ret # NoSettings
             /\ aura_settings = last.ret)
    /\ [][(aura_settings # NoSettings /\ aura_settings' # aura_settings) =>
             (last'.op = "reset" /\ aura_settings' = NoSettings)]_vars

\* A get on a loaded cache whose file has changed since: the cached settings
\* no longer reflect the file, and are returned all the same.
C9_Witness ==
    /\ last.op = "get"
    /\ last.cache # NoSettings
    /\ last.doc = AuraMap("docker", None)
    /\ ~Reflects(last.cache, last.doc)
    /\ envConfigDir = AltConfigDir
    /\ last.ret = last.cache

\* C10: when get_aura_settings reads a file whose run_mode is not node, local
\* or docker, it fails with a validation error and the cache stays unloaded:
\* it returns no settings, and a get on an unloaded cache always reads the
\* file that is there.
C10_BadRunModeNotCached ==
    /\ (last.op = "get" /\ last.cache = NoSettings /\ last.doc.kind = "map"
           /\ last.doc.run_mode \notin {"node", "local", "docker", None}) =>
          /\ last.raised = "ValidationError"
          /\ last.ret = NoSettings
          /\ aura_settings = NoSettings
    /\ (last.op = "get" /\ last.cache = NoSettings /\ last.doc.kind # "absent") =>
          last.read

\* The failed get came after an earlier load and a reset.
C10_Witness ==
    /\ last.op = "get"
    /\ last.doc = AuraMap("bogus", None)
    /\ last.raised = "ValidationError"
    /\ aura_settings = NoSettings
    /\ nextInst > 1

\* C11: when the unified config file is absent at the resolved path,
\* get_aura_settings returns without error an AuraSettings instance in which
\* every field has its default, in particular run_mode "node" and port 8000,
\* and caches it.
C11_AbsentGivesDefaults ==
    (last.op = "get" /\ last.cache = NoSettings /\ last.doc.kind = "absent") =>
        /\ last.raised = "none"
        /\ last.ret # NoSettings
        /\ last.ret = DefaultSettings(last.ret.inst)
        /\ last.ret.run_mode = "node"
        /\ last.ret.port = 8000
        /\ aura_settings = last.ret

\* The file is absent at the directory AURA_CONFIG_DIR names, while the
\* default directory has one.
C11_Witness ==
    /\ last.op = "get"
    /\ last.cache = NoSettings
    /\ last.doc.kind = "absent"
    /\ envConfigDir = AltConfigDir
    /\ auraYaml[DefaultConfigDir] = AuraMap("docker", None)
    /\ aura_settings = last.ret
    /\ last.ret.run_mode = "node"

----------------------------------------------------------------------------
(* The pure functions, each applied to inputs drawn from bounded sets      *)

\* The rest of the state, which these specifications leave alone
Idle(op) ==
    /\ auraYaml = [d \in ConfigDirs |-> AuraAbsent]
    /\ envConfigDir = Unset
    /\ aura_settings = NoSettings
    /\ nextInst = 1
    /\ overlay = [p \in OverlayPaths |-> Absent]
    /\ example = Absent
    /\ last = NoCall(op)
    /\ GenIdle

Rest == <<auraYaml, envConfigDir, aura_settings, nextInst, overlay, example>>

\* -- get_oss_endpoint_normalized, applied to an endpoint and then again to
\*    what it returned
InitNorm ==
    /\ Idle("init")
    /\ arg \in {NoEp} \cup {Ep(s) : s \in Strings}
    /\ out = <<>>

Normalize ==
    /\ last.op = "init"
    /\ out' = <<get_oss_endpoint_normalized(arg)>>
    /\ last' = NoCall("normalize")
    /\ UNCHANGED <<Rest, arg, genVars>>

NormalizeAgain ==
    /\ last.op = "normalize"
    /\ Len(out) = 1
    /\ out' = Append(out, get_oss_endpoint_normalized(out[1]))
    /\ UNCHANGED <<Rest, arg, last, genVars>>

NextNorm == Normalize \/ NormalizeAgain

SpecNorm == InitNorm /\ [][NextNorm]_vars

\* -- to_backend_app_yaml_dict, applied to a Settings instance
EndpointInputs == {NoEp, Ep(<<>>), Ep(<<HOST>>), Ep(<<HTTP, SL, SL, HOST, SL>>)}

SettingsInputs ==
    {[DefaultSettings(1) EXCEPT !.oss_endpoint = ep, !.oss_bucket = b,
                                !.oss_access_key_id = k, !.oss_access_key_secret = k,
                                !.dashscope_api_key = dk, !.qwen_token = qt] :
        ep \in EndpointInputs, b \in {None, "", "bucket"}, k \in {None, "key"},
        dk \in {None, "", "dk"}, qt \in {None, "", "qt"}}

InitProj ==
    /\ Idle("init")
    /\ arg \in SettingsInputs
    /\ out = NoArg

Project ==
    /\ last.op = "init"
    /\ out' = to_backend_app_yaml_dict(arg)
    /\ last' = NoCall("project")
    /\ UNCHANGED <<Rest, arg, genVars>>

SpecProj == InitProj /\ [][Project]_vars

\* -- _merge_abilities_into_generated, applied to a generated models.yaml
\*    with a base tool list and to an overlay file holding an overlay tool
\*    list in one of its three accepted forms
OverlayForms == {"list", "local_tools", "abilities"}

OverlayOf(form, l) ==
    IF form = "list" THEN ListDoc(l)
    ELSE IF form = "local_tools" THEN MapDoc(ListVal(l), NoVal)
    ELSE MapDoc(NoVal, ListVal(l))

InitMerge ==
    /\ Idle("init")
    /\ arg \in [base : ToolLists, ov : ToolLists, form : OverlayForms]
    /\ out = NoArg

Merge ==
    /\ last.op = "init"
    /\ LET m == merge_abilities_into_generated(MapDoc(ListVal(arg.base), NoVal),
                                               OverlayOf(arg.form, arg.ov))
       IN  /\ out' = m.models
           /\ last' = [NoCall("merge") EXCEPT !.raised = m.raised]
    /\ UNCHANGED <<Rest, arg, genVars>>

SpecMerge == InitMerge /\ [][Merge]_vars

\* -- _validate_abilities_config and then _merge_abilities_into_generated,
\*    applied to the same overlay file: any document yaml.safe_load can
\*    return, a mapping with any pair of values under local_tools and
\*    abilities included
KeyValues == {NoVal, FalsyVal, TruthyVal} \cup {ListVal(l) : l \in ToolLists}

OverlayDocs ==
    {Absent, NullDoc, ScalarDoc} \cup {ListDoc(l) : l \in ToolLists}
        \cup {MapDoc(lt, ab) : lt \in KeyValues, ab \in KeyValues}

BaseLists == {<<>>, <<EchoTool>>}

InitAgree ==
    /\ Idle("init")
    /\ arg \in [base : BaseLists, doc : OverlayDocs]
    /\ out = NoArg

ValidateOverlay ==
    /\ last.op = "init"
    /\ LET v == validate_abilities_config(arg.doc)
       IN  /\ out' = [ok |-> v.ok, models |-> MapDoc(ListVal(arg.base), NoVal)]
           /\ last' = [NoCall("validate") EXCEPT !.raised = v.raised]
    /\ UNCHANGED <<Rest, arg, genVars>>

\* ensure_abilities_config lets only an accepted overlay reach the merge
MergeValidated ==
    /\ last.op = "validate"
    /\ out.ok
    /\ LET m == merge_abilities_into_generated(out.models, arg.doc)
       IN  /\ out' = [ok |-> TRUE, models |-> m.models]
           /\ last' = [NoCall("merge") EXCEPT !.raised = m.raised]
    /\ UNCHANGED <<Rest, arg, genVars>>

NextAgree == ValidateOverlay \/ MergeValidated

SpecAgree == InitAgree /\ [][NextAgree]_vars

----------------------------------------------------------------------------
(* Claims about the pure functions                                         *)

\* The ids of a tool list: those of its mappings that have one
IdsOf(l) == {l[i].id : i \in {j \in 1..Len(l) : l[j].dict /\ l[j].id # NoId}}
\* The entries a tool list has for an id
EntriesFor(l, id) == {l[i] : i \in {j \in 1..Len(l) : l[j].dict /\ l[j].id = id}}

MergedTools == out.local_tools.items

\* C1: after _merge_abilities_into_generated, for every base tool list and
\* overlay tool list, the merged local_tools has for an id of both lists the
\* overlay's entry, and for an id of the base list alone the base's entry.
\* (An id is a truthy id: the code takes an entry whose id is missing, None
\* or empty as having none.)
C1_OverlayWins ==
    last.op = "merge" =>
        /\ last.raised = "none"
        /\ out.kind = "map" /\ out.local_tools.t = "list"
        /\ \A id \in IdsOf(arg.ov) :
              /\ EntriesFor(MergedTools, id) # {}
              /\ EntriesFor(MergedTools, id) \subseteq EntriesFor(arg.ov, id)
        /\ \A id \in IdsOf(arg.base) \ IdsOf(arg.ov) :
              /\ EntriesFor(MergedTools, id) # {}
              /\ EntriesFor(MergedTools, id) \subseteq EntriesFor(arg.base, id)

\* The scenario of the spec: the base and the overlay both define cursor,
\* the base alone defines echo.
C1_Witness ==
    /\ last.op = "merge"
    /\ arg.base = <<DictEntry("cursor", "b1"), DictEntry("echo", "b1")>>
    /\ arg.ov = <<DictEntry("cursor", "b2")>>
    /\ MergedTools = <<DictEntry("cursor", "b2"), DictEntry("echo", "b1")>>

\* The last entry a tool list has for an id
LastFor(l, id) ==
    LET last_i == CHOOSE i \in 1..Len(l) :
                      /\ l[i].dict /\ l[i].id = id
                      /\ \A j \in (i + 1)..Len(l) : ~(l[j].dict /\ l[j].id = id)
    IN  l[last_i]

\* C21: after _merge_abilities_into_generated, for every base list and
\* overlay list (lists that repeat an id included), the merge does not fail,
\* the merged local_tools has no two entries with the same id and only
\* mappings with an id (entries that are no mappings or have no id are
\* skipped), its ids are those of the two lists, and for an id of the overlay
\* its entry is the overlay's last entry for that id.  (An id is a truthy
\* scalar, as a YAML tool id is.)
C21_OnePerIdLastWins ==
    last.op = "merge" =>
        /\ last.raised = "none"
        /\ out.kind = "map" /\ out.local_tools.t = "list"
        /\ \A i, j \in 1..Len(MergedTools) :
              i # j => MergedTools[i].id # MergedTools[j].id
        /\ \A i \in 1..Len(MergedTools) :
              MergedTools[i].dict /\ MergedTools[i].id # NoId
        /\ IdsOf(MergedTools) = IdsOf(arg.base) \cup IdsOf(arg.ov)
        /\ \A id \in IdsOf(arg.ov) :
              EntriesFor(MergedTools, id) = {LastFor(arg.ov, id)}

\* The base holds echo twice and the overlay holds cursor twice, each with
\* two different bodies: the merged list has one entry for each id, the last.
C21_Witness ==
    /\ last.op = "merge"
    /\ last.raised = "none"
    /\ arg.base = <<DictEntry("echo", "b1"), DictEntry("echo", "b2")>>
    /\ arg.ov = <<DictEntry("cursor", "b1"), DictEntry("cursor", "b2")>>
    /\ MergedTools = <<DictEntry("echo", "b2"), DictEntry("cursor", "b2")>>

\* Entries that are skipped: a non-mapping in the base, a mapping without id
\* in the overlay, and nothing else in either list.
C21_SkippedWitness ==
    /\ last.op = "merge"
    /\ last.raised = "none"
    /\ arg.base = <<NonDictEntry, DictEntry("echo", "b1")>>
    /\ arg.ov = <<DictEntry(NoId, "b1"), NonDictEntry>>
    /\ MergedTools = <<DictEntry("echo", "b1")>>

\* A storage field of the projection
HasStorageField(d) ==
    \/ d.oss_endpoint # NoKeyEp
    \/ d.oss_bucket # NoKey
    \/ d.oss_access_key_id # NoKey
    \/ d.oss_access_key_secret # NoKey

\* C6: for every Settings instance with oss_endpoint or oss_bucket unset, the
\* dict of to_backend_app_yaml_dict has none of the keys oss_endpoint,
\* oss_bucket, oss_access_key_id, oss_access_key_secret.
C6_NoStorageFieldsUnlessBoth ==
    (last.op = "project" /\ (~arg.oss_endpoint.some \/ arg.oss_bucket = None)) =>
        ~HasStorageField(out)

\* C7: for every Settings instance, the dict of to_backend_app_yaml_dict has
\* no key qwen_token; when qwen_token is set and dashscope_api_key is unset
\* or empty, its dashscope_api_key is qwen_token's value; when
\* dashscope_api_key is set and not empty, it keeps its value.  (A token that
\* is set is a non-empty one; an empty one is no credential.)
C7_AliasFolded ==
    last.op = "project" =>
        /\ out.qwen_token = NoKey
        /\ (Truthy(arg.qwen_token) /\ arg.dashscope_api_key \in {None, ""}) =>
              out.dashscope_api_key = arg.qwen_token
        /\ arg.dashscope_api_key \notin {None, ""} =>
              out.dashscope_api_key = arg.dashscope_api_key

C7_Witness ==
    /\ last.op = "project"
    /\ arg.qwen_token = "qt"
    /\ arg.dashscope_api_key = ""
    /\ out.dashscope_api_key = "qt"
    /\ out.qwen_token = NoKey

\* The string begins with http:// or https://
HasScheme(s) == StartsWith(s, HttpScheme) \/ StartsWith(s, HttpsScheme)
\* The string is not blank and lacks a scheme, surrounding whitespace aside
LacksScheme(s) == Strip(s) # <<>> /\ ~HasScheme(Strip(s))
\* The string ends in neither whitespace nor a slash
Trimmed(s) == s # <<>> /\ s[Len(s)] \notin {SP, SL}

\* C8 as stated: for every non-blank oss_endpoint lacking a scheme,
\* get_oss_endpoint_normalized returns a string beginning with https://; for
\* every oss_endpoint beginning with http:// or https:// it returns the input
\* unchanged, so normalising its own output changes nothing.
C8_NoOpWithScheme ==
    /\ (last.op = "normalize" /\ arg.some /\ LacksScheme(arg.s)) =>
          (out[1].some /\ StartsWith(out[1].s, HttpsScheme))
    /\ (last.op = "normalize" /\ arg.some /\ HasScheme(arg.s)) => out[1] = arg
    /\ (last.op = "normalize" /\ Len(out) = 2) => out[2] = out[1]

\* C8 as amended: for every non-blank oss_endpoint lacking a scheme,
\* get_oss_endpoint_normalized returns a string beginning with https://; for
\* every oss_endpoint beginning with http:// or https:// and ending in
\* neither whitespace nor a slash it returns the input unchanged, so
\* normalising an output that ends in neither changes nothing.
C8_NoOpWithSchemeTrimmed ==
    /\ (last.op = "normalize" /\ arg.some /\ LacksScheme(arg.s)) =>
          (out[1].some /\ StartsWith(out[1].s, HttpsScheme))
    /\ (last.op = "normalize" /\ arg.some /\ HasScheme(arg.s) /\ Trimmed(arg.s)) =>
          out[1] = arg
    /\ (last.op = "normalize" /\ Len(out) = 2 /\ out[1].some /\ Trimmed(out[1].s)) =>
          out[2] = out[1]

C8_Witness ==
    /\ last.op = "normalize"
    /\ arg = Ep(<<HTTP, SL, SL, HOST>>)
    /\ out = <<arg, arg>>

----------------------------------------------------------------------------
(* The Cursor CLI wrapper (aura/cli.py)                                    *)

\* Arguments in a drawn argument list
MaxArgs == 2

NoBinary == "<None>"
AuraRoot == "<aura root>"

\* The three lines _run_cursor_cli prints to stderr
NotFoundLine == "Cursor CLI not found. Install it to use 'Aura cursor'."
InstallLine == "  macOS/Linux/WSL: curl https://cursor.com/install -fsS | bash"
PathLine == "  Then ensure ~/.local/bin is in your PATH."

CliArgs == SeqsUpTo({"-p", "hello", "--help"}, MaxArgs)
ExitCodes == {0, 1, 2, -9}

\* _cursor_cli_binary, from what shutil.which finds for agent and for cursor
\* Variant without the second test (lines 81-82)
CursorBinaryOnlyAgent(agent, cursor) == IF agent THEN "agent" ELSE NoBinary

cursor_cli_binary(agent, cursor) ==
    IF agent THEN "agent" ELSE IF cursor THEN "cursor" ELSE NoBinary

\* _run_cursor_cli: what it returns, what it prints to stderr, and the
\* subprocesses it runs.  code is the exit code of the subprocess, if run.
run_cursor_cli(agent, cursor, cli_args, code) ==
    LET binary == cursor_cli_binary(agent, cursor)
    IN  IF binary = NoBinary
        THEN [ret |-> 1, stderr |-> <<NotFoundLine, InstallLine, PathLine>>,
              launched |-> <<>>]
        ELSE [ret |-> code, stderr |-> <<>>,
              launched |-> <<[cmd |-> <<binary>> \o cli_args, cwd |-> AuraRoot]>>]

InitCursor ==
    /\ Idle("init")
    /\ arg \in [agent : BOOLEAN, cursor : BOOLEAN, cli_args : CliArgs, code : ExitCodes]
    /\ out = NoArg

RunCursorCli ==
    /\ last.op = "init"
    /\ out' = run_cursor_cli(arg.agent, arg.cursor, arg.cli_args, arg.code)
    /\ last' = NoCall("cursor")
    /\ UNCHANGED <<Rest, arg, genVars>>

SpecCursor == InitCursor /\ [][RunCursorCli]_vars

\* The binaries shutil.which finds
Found == {b \in {"agent", "cursor"} : (b = "agent" /\ arg.agent) \/ (b = "cursor" /\ arg.cursor)}

\* C20: _run_cursor_cli returns 1, prints an install hint to stderr and starts
\* no subprocess when neither the agent nor the cursor binary is found; when
\* a binary is found it runs that binary exactly once with the given
\* arguments and the Aura root as working directory, and returns that
\* subprocess's exit code.
C20_CursorCli ==
    last.op = "cursor" =>
        /\ Found = {} =>
              /\ out.ret = 1
              /\ \E i \in 1..Len(out.stderr) : out.stderr[i] = InstallLine
              /\ out.launched = <<>>
        /\ Found # {} =>
              /\ Len(out.launched) = 1
              /\ Head(out.launched[1].cmd) \in Found
              /\ Tail(out.launched[1].cmd) = arg.cli_args
              /\ out.launched[1].cwd = AuraRoot
              /\ out.ret = arg.code

\* Only cursor is installed, and the subprocess fails.
C20_Witness ==
    /\ last.op = "cursor"
    /\ ~arg.agent /\ arg.cursor
    /\ arg.cli_args = <<"-p", "hello">>
    /\ arg.code = 2
    /\ out.launched = <<[cmd |-> <<"cursor", "-p", "hello">>, cwd |-> AuraRoot]>>
    /\ out.ret = 2

----------------------------------------------------------------------------
(* Environment substitution (_substitute_env)                              *)

\* Pieces in a drawn string
MaxPieces == 3

\* A string is a sequence of characters.  [A-Za-z_] and [A-Za-z0-9_] of the
\* pattern of line 291, over the characters of the model:
IdentStart == {"A", "B", "_"}
IdentChar == IdentStart \cup {"1"}

\* The index of the first "}" of s at or after i, or 0
RECURSIVE FirstClose(_, _)
FirstClose(s, i) ==
    IF i > Len(s) THEN 0 ELSE IF s[i] = "}" THEN i ELSE FirstClose(s, i + 1)

\* The index of the last character of the run of [A-Za-z0-9_] that starts at i
RECURSIVE IdentEnd(_, _)
IdentEnd(s, i) ==
    IF i + 1 <= Len(s) /\ s[i + 1] \in IdentChar THEN IdentEnd(s, i + 1) ELSE i

\* os.environ.get(name, default): env maps the names that are defined
\* Variant that gives the empty string for an undefined variable
EnvGetOrEmpty(env, name, default) ==
    IF name \in DOMAIN env THEN env[name] ELSE <<>>

EnvGet(env, name, default) ==
    IF name \in DOMAIN env THEN env[name] ELSE default

\* pattern.sub(lambda m: os.environ.get(m.group(1) or m.group(2) or "",
\* m.group(0)), val), from index i on: at each index the pattern is tried,
\* ${...} first (any text without "}", at least one character, up to the
\* next "}"), then $ and an identifier, as long as it goes; what a match is
\* replaced by is not scanned again.
RECURSIVE PatternSub(_, _, _)
PatternSub(s, i, env) ==
    IF i > Len(s) THEN <<>>
    ELSE LET close == FirstClose(s, i + 2)
         IN  IF s[i] = "$" /\ i + 1 <= Len(s) /\ s[i + 1] = "{" /\ close > i + 2
             THEN EnvGet(env, SubSeq(s, i + 2, close - 1), SubSeq(s, i, close))
                      \o PatternSub(s, close + 1, env)
             ELSE IF s[i] = "$" /\ i + 1 <= Len(s) /\ s[i + 1] \in IdentStart
             THEN LET j == IdentEnd(s, i + 1)
                  IN  EnvGet(env, SubSeq(s, i + 1, j), SubSeq(s, i, j))
                          \o PatternSub(s, j + 1, env)
             ELSE <<s[i]>> \o PatternSub(s, i + 1, env)

\* The values yaml.safe_load gives: a string, a mapping (its keys and, in
\* the same order, their values), a list, or something else (a number, None)
StrV(s) == [t |-> "str", s |-> s, keys |-> <<>>, items |-> <<>>]
DictV(keys, items) == [t |-> "dict", s |-> <<>>, keys |-> keys, items |-> items]
ListV(items) == [t |-> "list", s |-> <<>>, keys |-> <<>>, items |-> items]
IntV == [t |-> "int", s |-> <<>>, keys |-> <<>>, items |-> <<>>]
NoneV == [t |-> "none", s |-> <<>>, keys |-> <<>>, items |-> <<>>]

\* _substitute_env and its inner sub_val
RECURSIVE substitute_env(_, _)
RECURSIVE sub_val(_, _)
sub_val(val, env) ==
    IF val.t = "str" THEN StrV(PatternSub(val.s, 1, env))
    ELSE IF val.t = "dict" THEN substitute_env(val, env)
    ELSE IF val.t = "list"
    THEN ListV([i \in 1..Len(val.items) |-> sub_val(val.items[i], env)])
    ELSE val

substitute_env(obj, env) ==
    DictV(obj.keys, [i \in 1..Len(obj.items) |-> sub_val(obj.items[i], env)])

\* -- _substitute_env, applied to a mapping that holds a drawn string
\* A string is drawn as a sequence of pieces: one character of literal
\* text, a placeholder $NAME, or a placeholder ${NAME}.
Lit(c) == [p |-> "lit", n |-> <<c>>]
Bare(n) == [p |-> "bare", n |-> n]
Braced(n) == [p |-> "braced", n |-> n]

VarNames == {<<"A">>, <<"B">>, <<"A", "1">>}
Pieces ==
    {Lit(c) : c \in {"A", "-", "$", "{", "}"}}
        \cup {Bare(n) : n \in VarNames} \cup {Braced(n) : n \in VarNames}

\* The text of a piece
Render(pc) ==
    IF pc.p = "lit" THEN pc.n
    ELSE IF pc.p = "bare" THEN <<"$">> \o pc.n
    ELSE <<"$", "{">> \o pc.n \o <<"}">>

RECURSIVE RenderAll(_)
RenderAll(ps) == IF ps = <<>> THEN <<>> ELSE Render(Head(ps)) \o RenderAll(Tail(ps))

\* The pieces are the placeholders and the literal text of the string they
\* render to: no literal text continues the name of a $NAME before it, and
\* a literal "$" begins no placeholder with the literal text after it.
Separate(ps) ==
    \A i \in 1..(Len(ps) - 1) :
        /\ ps[i].p = "bare" => ~(ps[i + 1].p = "lit" /\ ps[i + 1].n[1] \in IdentChar)
        /\ ps[i] = Lit("$") => ~(ps[i + 1].p = "lit" /\ ps[i + 1].n[1] \in IdentStart \cup {"{"})

\* The environments drawn: the variables that are defined, and their values
EnvInputs ==
    {<<>>,
     (<<"A">> :> <<"v">>),
     (<<"A">> :> <<>>) @@ (<<"B">> :> <<"$", "A">>),
     (<<"A">> :> <<"v">>) @@ (<<"A", "1">> :> <<"w", "}">>)}

\* The mappings drawn, each holding the string s: as a value, in a list
\* beside a number, in a nested mapping under a key that reads like a
\* placeholder, and deeper
Shapes == {"value", "list", "dict", "deep"}

Build(shape, s) ==
    IF shape = "value" THEN DictV(<<<<"k">>, <<"n">>>>, <<StrV(s), IntV>>)
    ELSE IF shape = "list" THEN DictV(<<<<"k">>>>, <<ListV(<<IntV, StrV(s)>>)>>)
    ELSE IF shape = "dict"
    THEN DictV(<<<<"k">>>>, <<DictV(<<<<"$", "A">>>>, <<StrV(s)>>)>>)
    ELSE DictV(<<<<"$", "{", "A", "}">>, <<"n">>>>,
               <<ListV(<<DictV(<<<<"k">>>>, <<ListV(<<StrV(s)>>)>>), NoneV>>), StrV(s)>>)

InitSubst ==
    /\ Idle("init")
    /\ arg \in {a \in [pieces : SeqsUpTo(Pieces, MaxPieces), shape : Shapes, env : EnvInputs] :
                   Separate(a.pieces)}
    /\ out = NoArg

SubstituteEnv ==
    /\ last.op = "init"
    /\ out' = substitute_env(Build(arg.shape, RenderAll(arg.pieces)), arg.env)
    /\ last' = NoCall("substitute")
    /\ UNCHANGED <<Rest, arg, genVars>>

SpecSubst == InitSubst /\ [][SubstituteEnv]_vars

\* What a piece is to become: a placeholder whose variable is defined the
\* variable's value, anything else itself
Replaced(pc, env) ==
    IF pc.p \in {"bare", "braced"} /\ pc.n \in DOMAIN env THEN env[pc.n] ELSE Render(pc)

RECURSIVE ReplacedAll(_, _)
ReplacedAll(ps, env) ==
    IF ps = <<>> THEN <<>> ELSE Replaced(Head(ps), env) \o ReplacedAll(Tail(ps), env)

----------------------------------------------------------------------------
(* Generation of the backend config, under edits of its sources            *)

OldCursorTool == DictEntry("cursor", "b1")

\* What the backend may have as models.yaml and as models.yaml.example
BackendModelsInputs == {Absent, BadYaml, MapDoc(ListVal(<<EchoTool>>), NoVal)}
BackendExampleInputs == {Absent, MapDoc(ListVal(<<DictEntry("echo", "b2")>>), NoVal)}

\* What the user may leave as the abilities file: none, text that does not
\* parse, a list of tools in one of the forms, a list without tools
AbilitiesInputs ==
    {Absent, BadYaml, MapDoc(ListVal(<<CursorTool>>), NoVal), MapDoc(ListVal(<<>>), NoVal),
     ListDoc(<<DictEntry("echo", "b2"), NonDictEntry>>)}

\* What an earlier run may have left in the generated directory: nothing,
\* or a models.yaml with a tool of its own
GenInputs ==
    {EmptyGen, GenDir(NoAppYaml, MapDoc(ListVal(<<OldCursorTool>>), NoVal), "left", Absent)}

\* The state after a call of ensure_backend_config_from_aura with outcome r
AfterGenerate(r) ==
    /\ aura_settings' = r.cache
    /\ nextInst' = r.inst
    /\ overlay' = r.overlay
    /\ gen' = r.gen
    /\ envAbilities' = r.envAbilities
    /\ runs' = IF r.raised # "none" THEN 0
               ELSE IF last.op = "generate" /\ last.raised = "none" THEN 2
               ELSE 1
    /\ last' = Call("generate", r.raised, NoSettings, r.ret, r.path, FALSE,
                    CurrentDoc, aura_settings,
                    IF r.path = "" THEN Absent ELSE overlay[r.path], example)

EnsureBackendConfigFromAura ==
    /\ CanLoad
    /\ AfterGenerate(ensure_backend_config_from_aura(aura_settings, nextInst, CurrentDoc,
                                                     overlay, example, backend, gen,
                                                     envAbilities))
    /\ UNCHANGED <<auraYaml, envConfigDir, example, arg, out, auraExample, backend, procs>>

\* The user edits or removes the abilities file at the default path
WriteAbilities ==
    /\ \E c \in AbilitiesInputs :
          /\ overlay[DefaultAbilitiesPath] # c
          /\ overlay' = [overlay EXCEPT ![DefaultAbilitiesPath] = c]
    /\ last' = NoCall("env")
    /\ runs' = 0
    /\ UNCHANGED <<auraYaml, envConfigDir, aura_settings, nextInst, example, arg, out,
                   auraExample, backend, gen, envAbilities, procs>>

\* The backend's tool-list source is edited, installed or removed
WriteBackend ==
    /\ \E m \in BackendModelsInputs, e \in BackendExampleInputs :
          /\ backend # Backend(m, e)
          /\ backend' = Backend(m, e)
    /\ last' = NoCall("env")
    /\ runs' = 0
    /\ UNCHANGED <<auraYaml, envConfigDir, aura_settings, nextInst, overlay, example, arg,
                   out, auraExample, gen, envAbilities, procs>>

\* A fresh process; the user's aura.yaml gives a config_dir or there is
\* none; the abilities example is missing or empty; the backend has its
\* tool list under one of the names or not at all; the generated directory
\* is new or left by an earlier run.
InitGen ==
    /\ auraYaml \in [ConfigDirs -> {AuraAbsent, AuraMapDir("elsewhere")}]
    /\ auraYaml[AltConfigDir] = AuraAbsent
    /\ envConfigDir = Unset
    /\ aura_settings = NoSettings
    /\ nextInst = 1
    /\ overlay = [p \in OverlayPaths |-> Absent]
    /\ example \in {Absent, NullDoc}
    /\ last = NoCall("init")
    /\ arg = NoArg
    /\ out = NoArg
    /\ auraExample = AuraAbsent
    /\ backend \in {Backend(m, e) : m \in BackendModelsInputs, e \in BackendExampleInputs}
    /\ gen \in GenInputs
    /\ envAbilities = Unset
    /\ runs = 0
    /\ procs = NoProcs

NextGen ==
    \/ EnsureBackendConfigFromAura
    \/ WriteAbilities
    \/ WriteBackend

SpecGen == InitGen /\ [][NextGen]_vars

----------------------------------------------------------------------------
(* Claims about the generated config (checked under SpecGen)               *)

\* The last call was ensure_backend_config_from_aura and it returned
Generated == last.op = "generate" /\ last.raised = "none"

\* The overlay's tool list: the top-level list, else the list under
\* local_tools, else the list under abilities
OverlayList(c) ==
    IF c.kind = "list" THEN c.items
    ELSE IF c.kind = "map" /\ c.local_tools.t = "list" THEN c.local_tools.items
    ELSE IF c.kind = "map" /\ c.abilities.t = "list" THEN c.abilities.items
    ELSE <<>>

\* The base-source case: which of the backend's files there is
BaseCase ==
    IF backend.models.kind # "absent" THEN "models.yaml"
    ELSE IF backend.example.kind # "absent" THEN "models.yaml.example"
    ELSE "neither"

\* The generated tool list
GenTools == gen.models.local_tools.items

\* C13: after every successful ensure_backend_config_from_aura, from any
\* prior state of the generated directory and in each base-source case
\* (models.yaml present, only models.yaml.example present, neither), the
\* generated directory has a models.yaml and its local_tools list contains
\* every overlay entry that has an id.
C13_GeneratedHoldsOverlay ==
    Generated =>
        /\ gen.models.kind = "map"
        /\ gen.models.local_tools.t = "list"
        /\ \A i \in 1..Len(OverlayList(overlay[last.path])) :
              HasId(OverlayList(overlay[last.path])[i]) =>
                  \E j \in 1..Len(GenTools) : GenTools[j] = OverlayList(overlay[last.path])[i]

\* The backend's tool-list source as it is now: models.yaml, else
\* models.yaml.example, else none (an empty list)
BaseSource ==
    IF backend.models.kind # "absent" THEN backend.models
    ELSE IF backend.example.kind # "absent" THEN backend.example
    ELSE MinimalModels

\* The entries with an id of a tool list
IdEntries(l) == {l[i] : i \in {j \in 1..Len(l) : HasId(l[j])}}

\* C14: the generated tool list is always a full rewrite, never a delta:
\* after any sequence of ensure_backend_config_from_aura calls and edits of
\* the overlay and of the backend's source, the generated models.yaml holds
\* only what the current base source and the current overlay give, nothing
\* an earlier call left there; an id that is neither in the overlay nor in
\* the base is not in the generated list after the next call.
C14_FullRewrite ==
    (Generated /\ gen.models.kind # "absent") =>
        /\ gen.models.kind = "map" /\ gen.models.local_tools.t = "list"
        /\ IdEntries(GenTools) \subseteq
              IdEntries(BaseTools(BaseSource)) \cup IdEntries(OverlayList(overlay[last.path]))
        /\ IdsOf(GenTools) \subseteq
              IdsOf(BaseTools(BaseSource)) \cup IdsOf(OverlayList(overlay[last.path]))

\* C15: a second ensure_backend_config_from_aura right after a first, with
\* the same settings, the same backend source and the overlay unchanged,
\* leaves generated models.yaml byte for byte what it was after the first:
\* the same document, entries in the same order, written by the same writer.
C15_SecondCallIdentical ==
    [][(Generated /\ last'.op = "generate" /\ last'.raised = "none") =>
          /\ gen'.models = gen.models
          /\ gen'.text = gen.text]_vars

\* The second call in a row, on a base with echo and an overlay with cursor
C15_Witness ==
    /\ Generated
    /\ runs = 2
    /\ BaseCase = "models.yaml"
    /\ gen.text = "dump"
    /\ GenTools = <<EchoTool, CursorTool>>

\* C16: in the app.yaml that ensure_backend_config_from_aura writes,
\* config_dir is the generated directory the call returns, whatever
\* config_dir the settings have; it is never the original config directory.
C16_ConfigDirIsGenerated ==
    /\ Generated =>
          /\ gen.app.some
          /\ gen.app.d.config_dir = last.retPath
          /\ gen.app.d = [to_backend_app_yaml_dict(aura_settings) EXCEPT
                            !.config_dir = last.retPath]
    /\ gen.app.some =>
          /\ gen.app.d.config_dir = GeneratedDir
          /\ gen.app.d.config_dir \notin {DefaultConfigDir, aura_settings.config_dir}

\* The settings give a config_dir of their own
C16_Witness ==
    /\ Generated
    /\ aura_settings.config_dir = "elsewhere"
    /\ gen.app.d.config_dir = GeneratedDir
    /\ last.retPath = GeneratedDir

\* The ensure_abilities_config of line 225 did not return: the settings did
\* not load, or the overlay file is not a valid one after it
EnsureFailed == last.path = "" \/ ~StructurallyValid(overlay[last.path])

\* C17: ensure_backend_config_from_aura ensures the overlay before any other
\* step: a call whose ensure_abilities_config does not return successfully
\* fails, and has written neither generated app.yaml nor generated
\* models.yaml nor changed AURA_ABILITIES_FILE.
C17_EnsureFirst ==
    [][(last'.op = "generate" /\ EnsureFailed') =>
          /\ last'.raised # "none"
          /\ gen' = gen
          /\ envAbilities' = envAbilities]_vars

\* A call fails on an overlay it could not repair (the file is missing and
\* the example is empty), after an earlier call had generated the files.
C17_Witness ==
    /\ last.op = "generate"
    /\ last.raised = "ValueError"
    /\ last.file.kind = "absent"
    /\ gen.app.some
    /\ gen.text = "dump"
    /\ envAbilities = DefaultAbilitiesPath

----------------------------------------------------------------------------
(* Validation and merge on the same overlay (checked under SpecAgree)      *)

\* C22: for every overlay document that _validate_abilities_config accepts
\* (a top-level list, a mapping with a list under local_tools, a mapping with
\* a list under abilities, whatever the other key holds),
\* _merge_abilities_into_generated does not fail and the merged local_tools
\* has, for every id of the list that made the document valid, an entry of
\* that list.
C22_ValidateMergeAgree ==
    last.op = "merge" =>
        /\ last.raised = "none"
        /\ out.models.kind = "map" /\ out.models.local_tools.t = "list"
        /\ \A id \in IdsOf(OverlayList(arg.doc)) :
              /\ EntriesFor(out.models.local_tools.items, id) # {}
              /\ EntriesFor(out.models.local_tools.items, id)
                    \subseteq EntriesFor(OverlayList(arg.doc), id)

----------------------------------------------------------------------------
(* Two concurrent invocations of ensure_backend_config_from_aura           *)

\* Each invocation is a process of its own (its own settings cache, its own
\* environment) on the same files.  It goes through the call in whole-file
\* steps: ensure the overlay (line 225), write app.yaml (226-233), copy or
\* write the base tool list (234-244), read models.yaml and the overlay and
\* merge them (184-211), write the merged models.yaml (212-214).
Procs == {1, 2}

Proc(pc, st, data) == [pc |-> pc, st |-> st, data |-> data]

\* The state after the ensure_abilities_config of process p, with outcome e
AfterRaceEnsure(p, e) ==
    /\ overlay' = e.overlay
    /\ procs' = [procs EXCEPT ![p] =
                    IF e.raised # "none" THEN Proc("failed", NoSettings, Absent)
                    ELSE Proc("app", e.cache, Absent)]

RaceEnsure(p) ==
    /\ procs[p].pc = "ensure"
    /\ AfterRaceEnsure(p, ensure_abilities_config(NoSettings, 1, CurrentDoc, overlay, example))
    /\ UNCHANGED <<auraYaml, envConfigDir, aura_settings, nextInst, example, last, arg, out,
                   auraExample, backend, gen, envAbilities, runs>>

RaceWriteApp(p) ==
    /\ procs[p].pc = "app"
    /\ gen' = [gen EXCEPT !.app = AppYaml(app_data(procs[p].st))]
    /\ procs' = [procs EXCEPT ![p].pc = "base"]
    /\ UNCHANGED <<auraYaml, envConfigDir, aura_settings, nextInst, overlay, example, last,
                   arg, out, auraExample, backend, envAbilities, runs>>

RaceCopyBase(p) ==
    /\ procs[p].pc = "base"
    /\ gen' = copy_base(backend, gen)
    /\ procs' = [procs EXCEPT ![p].pc = "read"]
    /\ UNCHANGED <<auraYaml, envConfigDir, aura_settings, nextInst, overlay, example, last,
                   arg, out, auraExample, backend, envAbilities, runs>>

\* The process after it has read models.yaml and the overlay, m being the
\* merge of what it read: done when there was no models.yaml to merge into
AfterRaceRead(p, m) ==
    procs' = [procs EXCEPT ![p] =
                 IF m.raised # "none" THEN Proc("failed", procs[p].st, Absent)
                 ELSE IF m.models.kind = "absent" THEN Proc("done", procs[p].st, Absent)
                 ELSE Proc("write", procs[p].st, m.models)]

RaceReadModels(p) ==
    /\ procs[p].pc = "read"
    /\ AfterRaceRead(p, merge_abilities_into_generated(gen.models,
                                                       overlay[abilities_path(procs[p].st)]))
    /\ UNCHANGED <<auraYaml, envConfigDir, aura_settings, nextInst, overlay, example, last,
                   arg, out, auraExample, backend, gen, envAbilities, runs>>

RaceWriteMerged(p) ==
    /\ procs[p].pc = "write"
    /\ gen' = [gen EXCEPT !.models = procs[p].data, !.text = "dump"]
    /\ procs' = [procs EXCEPT ![p] = Proc("done", procs[p].st, Absent)]
    /\ UNCHANGED <<auraYaml, envConfigDir, aura_settings, nextInst, overlay, example, last,
                   arg, out, auraExample, backend, envAbilities, runs>>

\* Both invocations start from the same settings, base source and overlay;
\* arg keeps the files as they were then.
InitRace ==
    /\ auraYaml = [d \in ConfigDirs |-> AuraAbsent]
    /\ envConfigDir = Unset
    /\ aura_settings = NoSettings
    /\ nextInst = 1
    /\ overlay \in {[p \in OverlayPaths |-> IF p = DefaultAbilitiesPath THEN c ELSE Absent] :
                       c \in AbilitiesInputs}
    /\ example \in {Absent, NullDoc}
    /\ last = NoCall("race")
    /\ out = NoArg
    /\ auraExample = AuraAbsent
    /\ backend \in {Backend(m, e) : m \in BackendModelsInputs, e \in BackendExampleInputs}
    /\ gen \in GenInputs
    /\ envAbilities = Unset
    /\ runs = 0
    /\ procs = [p \in Procs |-> Proc("ensure", NoSettings, Absent)]
    /\ arg = [gen |-> gen, overlay |-> overlay]

NextRace ==
    \E p \in Procs :
        \/ RaceEnsure(p)
        \/ RaceWriteApp(p)
        \/ RaceCopyBase(p)
        \/ RaceReadModels(p)
        \/ RaceWriteMerged(p)

SpecRace == InitRace /\ [][NextRace]_vars

\* What a single invocation, run alone on the files as they were, leaves
Single ==
    ensure_backend_config_from_aura(NoSettings, 1, CurrentDoc, arg.overlay, example,
                                    backend, arg.gen, Unset)

\* C18: when two ensure_backend_config_from_aura invocations run
\* concurrently from the same settings, base source and overlay, their
\* whole-file steps interleaved in any order, then after both have returned
\* the generated app.yaml and models.yaml are what a single invocation run
\* alone produces.
C18_RaceAsSingle ==
    (\A p \in Procs : procs[p].pc = "done") =>
        /\ Single.raised = "none"
        /\ gen.app = Single.gen.app
        /\ gen.models = Single.gen.models
        /\ gen.text = Single.gen.text

\* Both have returned; the base has echo and the overlay cursor.
C18_Witness ==
    /\ \A p \in Procs : procs[p].pc = "done"
    /\ BaseCase = "models.yaml"
    /\ arg.gen = EmptyGen
    /\ gen.text = "dump"
    /\ GenTools = <<EchoTool, CursorTool>>

----------------------------------------------------------------------------
(* The launcher's up and dev commands (aura/cli.py)                        *)

\* The text _ensure_first_run_config writes when there is no example
BuiltinAuraYaml == AuraMap("node", None)

\* _ensure_first_run_config, from <root>/config/aura.yaml, its example and
\* the cache: the file and the cache after it, and whether it wrote the file
ensure_first_run_config(doc, ex, cache) ==
    IF doc.kind # "absent"
    THEN [file |-> doc, cache |-> cache, created |-> FALSE]
    ELSE [file |-> IF ex.kind # "absent" THEN ex ELSE BuiltinAuraYaml,
          cache |-> NoSettings, created |-> TRUE]

\* _get_run_mode, from the settings get_aura_settings returned
get_run_mode(st) == IF Truthy(st.run_mode) THEN st.run_mode ELSE "node"

\* What the command launched, if anything: route "docker" is
\* _run_backend(["start"]), "run-script" the backend's run script, "serve"
\* the fallback of _run_run_script when that script is missing; dev says
\* whether DEV=1 was put into the script's environment.
Launch(route, argv, dev) == [route |-> route, argv |-> argv, dev |-> dev]
NoLaunch == Launch("none", <<>>, FALSE)

\* Lines 244-251 and 254-261 of main, and _run_run_script, without the
\* config injection: what is launched for a command, a run_mode and the
\* presence of the backend's run script
launch_for(cmd, run_mode, run_script) ==
    IF run_mode = "docker" THEN Launch("docker", <<"agent-backend", "start">>, FALSE)
    ELSE IF run_script THEN Launch("run-script", <<"run", run_mode>>, cmd = "dev")
    ELSE IF run_mode \in {"node", "local"}
    THEN Launch("serve", <<"agent-backend", "serve">>, FALSE)
    ELSE Launch("serve", <<"agent-backend", "serve", "--reload">>, FALSE)

\* The outcome of a command: what it raised, whether it created aura.yaml,
\* the run_mode _get_run_mode returned, what it launched
Outcome(cmd, raised, created, run_mode, launch) ==
    [cmd |-> cmd, raised |-> raised, created |-> created, run_mode |-> run_mode,
     launch |-> launch]

\* aura.yaml at the path get_aura_settings resolves, f.file being what
\* _ensure_first_run_config left at <root>/config/aura.yaml
ResolvedDoc(f) ==
    IF aura_config_path(envConfigDir) = DefaultConfigDir
    THEN f.file
    ELSE auraYaml[aura_config_path(envConfigDir)]

\* The state after the command, r being the outcome of the
\* ensure_backend_config_from_aura of _inject_aura_config
AfterInject(cmd, run_script, f, g, r) ==
    /\ aura_settings' = r.cache
    /\ nextInst' = r.inst
    /\ overlay' = r.overlay
    /\ gen' = r.gen
    /\ envAbilities' = r.envAbilities
    /\ out' = Outcome(cmd, r.raised, f.created, get_run_mode(g.ret),
                      IF r.raised = "none"
                      THEN launch_for(cmd, get_run_mode(g.ret), run_script)
                      ELSE NoLaunch)

\* _run_backend and _run_run_script inject the config before they launch;
\* the fallback of _run_run_script does so a second time, through _run_backend
Inject(cmd, run_script, f, g, r) ==
    IF r.raised = "none" /\ get_run_mode(g.ret) # "docker" /\ ~run_script
    THEN AfterInject(cmd, run_script, f, g,
                     ensure_backend_config_from_aura(r.cache, r.inst, ResolvedDoc(f), r.overlay,
                                                     example, backend, r.gen,
                                                     r.envAbilities))
    ELSE AfterInject(cmd, run_script, f, g, r)

\* The state after the command, g being the outcome of the
\* get_aura_settings of _get_run_mode
AfterGetRunMode(cmd, run_script, f, g) ==
    /\ last' = Call("main", g.raised, g.ret, "", "", g.read, ResolvedDoc(f), aura_settings,
                    Absent, Absent)
    /\ IF g.raised # "none"
       THEN /\ aura_settings' = g.cache
            /\ nextInst' = g.inst
            /\ out' = Outcome(cmd, g.raised, f.created, None, NoLaunch)
            /\ UNCHANGED <<overlay, gen, envAbilities>>
       ELSE Inject(cmd, run_script, f, g,
                   ensure_backend_config_from_aura(g.cache, g.inst, ResolvedDoc(f), overlay,
                                                   example, backend, gen, envAbilities))

\* The state after the command, f being the outcome of _ensure_first_run_config
AfterFirstRun(cmd, run_script, f) ==
    /\ auraYaml' = [auraYaml EXCEPT ![DefaultConfigDir] = f.file]
    /\ AfterGetRunMode(cmd, run_script, f,
                       get_aura_settings(f.cache, nextInst, ResolvedDoc(f)))

\* main for "up" and "dev" (lines 242-261)
Main ==
    /\ nextInst <= MaxLoads
    /\ \E cmd \in {"up", "dev"}, run_script \in BOOLEAN :
          /\ arg' = [cmd |-> cmd, run_script |-> run_script]
          /\ AfterFirstRun(cmd, run_script,
                           ensure_first_run_config(auraYaml[DefaultConfigDir], auraExample,
                                                   aura_settings))
    /\ runs' = 0
    /\ UNCHANGED <<envConfigDir, example, auraExample, backend, procs>>

\* The user removes config/aura.yaml
RemoveAuraYaml ==
    /\ auraYaml[DefaultConfigDir].kind # "absent"
    /\ auraYaml' = [auraYaml EXCEPT ![DefaultConfigDir] = AuraAbsent]
    /\ last' = NoCall("env")
    /\ UNCHANGED <<envConfigDir, aura_settings, nextInst, overlay, example, arg, out, genVars>>

\* The launcher in a process that may have loaded the settings before:
\* config/aura.yaml is missing or there, with or without an example beside it,
\* and AURA_CONFIG_DIR is unset or names another directory.
InitCli ==
    /\ auraYaml \in [ConfigDirs -> {AuraAbsent, AuraMap("local", None)}]
    /\ envConfigDir \in {Unset, AltConfigDir}
    /\ aura_settings = NoSettings
    /\ nextInst = 1
    /\ overlay = [p \in OverlayPaths |-> Absent]
    /\ example = Absent
    /\ last = NoCall("init")
    /\ arg = NoArg
    /\ out = NoArg
    /\ auraExample \in {AuraAbsent, AuraNull, AuraMap("docker", None), AuraMap("bogus", None)}
    /\ backend = Backend(MapDoc(ListVal(<<EchoTool>>), NoVal), Absent)
    /\ gen = EmptyGen
    /\ envAbilities = Unset
    /\ runs = 0
    /\ procs = NoProcs

NextCli ==
    \/ Main
    \/ GetAuraSettings
    \/ RemoveAuraYaml

SpecCli == InitCli /\ [][NextCli]_vars

\* The run_mode a file gives (run_mode defaults to node)
RunModeOf(doc) == IF doc.run_mode = None THEN "node" ELSE doc.run_mode

\* C19: in the up and dev flows, when _ensure_first_run_config creates
\* aura.yaml (from the example or from the built-in text) it invalidates the
\* settings cache, so the run_mode that the following _get_run_mode returns,
\* and that selects the docker or run-script path, is the run_mode of the
\* just-written file and not of a Settings instance cached before the write.
C19_FirstRunModeRead ==
    (last.op = "main" /\ out.created /\ last.raised = "none") =>
        /\ out.run_mode = RunModeOf(auraYaml[DefaultConfigDir])
        /\ out.raised = "none" =>
              (out.launch.route = "docker") = (RunModeOf(auraYaml[DefaultConfigDir]) = "docker")

\* C23: the dev command in run_mode node or local starts the backend with
\* reload enabled on every path: when the backend's run script exists it
\* runs that script for the run_mode with DEV=1 in its environment, and when
\* the script is absent it falls back to the backend's serve --reload.
C23_DevReloads ==
    (last.op = "main" /\ arg.cmd = "dev" /\ out.raised = "none"
        /\ out.run_mode \in {"node", "local"}) =>
        /\ arg.run_script =>
              out.launch = Launch("run-script", <<"run", out.run_mode>>, TRUE)
        /\ ~arg.run_script =>
              out.launch = Launch("serve", <<"agent-backend", "serve", "--reload">>, FALSE)

====
